---- MODULE Spec2Model ----
(***************************************************************************)
(* The multi-process enumeration scheduler of dreamcoder/enumeration.py:   *)
(* multicoreEnumeration (the coordinator loop), the worker wrapper          *)
(* wrapInThread and the message queue between them (Spec, LiveSpec), the    *)
(* in-process solver enumerateForTasks (EnumSpec) and the external-process  *)
(* solver solveForTask_ocaml (AdapterSpec).                                 *)
(*                                                                         *)
(* Units.  Wall-clock time is counted in ticks of 0.5 s, description        *)
(* length and log-probabilities in units of 0.5 nat, so that the code's     *)
(* 0.5 s epsilon is 1 tick and its budget increment 1.5 is 3 units.         *)
(* Every solver invocation keeps its Job's stopwatch running for at least   *)
(* one tick.                                                               *)
(***************************************************************************)
EXTENDS Integers, Sequences, FiniteSets, TLC

\* ---- bounds of the model ----
MaxTasks == 2
MaxCPUs == 2
MaxFrontier == 1
MaxTimeout == 3
MaxDur == 2
MaxWork == 6
MaxEnumTasks == 2
MaxCapacity == 2
MaxEnumTimeout == 4
\* the most tasks of one call of solveForTask_ocaml
MaxAdapterTasks == 2
\* the most solutions in one response of the solver, over all its tasks
MaxSolutions == 2

\* ---- program constants ----
Epsilon == 1
BudgetIncrementValue == 3

\* None as a search time: below every time.
None == 0 - 1

\* ---- the programs a solver can return ----
\* Programs 1 and 2 lie in the window (0,3], programs 3 and 4 in the window
\* (3,6], the later windows hold none.  Program 2 scores -1 nat on its task (a
\* regression-style likelihood below the hit mark), the others are hits:
\* the joint scores are -1, -5, -5 and -4.
\* Program 0 is the one program of the uniform grammar over the single
\* primitive 'one': it has probability 1, description length 0.
Programs == 1..4
descriptionLength(p) == IF p = 0 THEN 0 ELSE <<1, 3, 5, 4>>[p]
logPrior(p) == 0 - descriptionLength(p)
logLikelihood(p) == IF p = 2 THEN 0 - 2 ELSE 0
jointScore(p) == logPrior(p) + logLikelihood(p)
WindowPrograms(lb, ub) == {p \in Programs : descriptionLength(p) > lb /\ descriptionLength(p) <= ub}

VARIABLES
    tasks,              \* the input task list
    task2grammar,       \* task -> grammar
    request,            \* task -> request type
    testing, CPUs, maximumFrontier, enumerationTimeout,
    disableParallelism,
    jobs,               \* the jobs dict, in insertion order: <<[key, tasks]>>
    lowerBounds,        \* job key -> lower bound
    stopwatches,        \* job key -> Stopwatch
    frontiers,          \* task -> Frontier
    bestSearchTime,     \* task -> None or a time
    q,                  \* the message queue
    activeCPUs, id2CPUs, id2job, nextID,
    workers,            \* ID -> the arguments of an invocation whose message is not processed yet
    pc,                 \* "loop" | "wait" | "done" | "aborted"
    ret,                \* the pair returned, <<>> before the return
    launched,           \* invocations started through launchParallelProcess
    dispatches,         \* job key -> the invocations dispatched for the job so far
    enum,               \* a call of enumerateForTasks: its arguments and locals
    adapter             \* a call of solveForTask_ocaml: its arguments and locals

inputs == <<tasks, task2grammar, request, testing, CPUs, maximumFrontier, enumerationTimeout, disableParallelism>>
history == <<launched, dispatches>>
scheduler == <<inputs, jobs, lowerBounds, stopwatches, frontiers, bestSearchTime, q,
               activeCPUs, id2CPUs, id2job, nextID, workers, pc, ret, history>>
vars == <<scheduler, enum, adapter>>

\* ---- helpers ----
Range(s) == {s[i] : i \in 1..Len(s)}
Min(a, b) == IF a <= b THEN a ELSE b

RECURSIVE SumOver(_, _)
SumOver(f, S) == IF S = {} THEN 0 ELSE LET x == CHOOSE y \in S : TRUE IN f[x] + SumOver(f, S \ {x})

\* No call of a solver is followed step by step.
NoCall == [pc |-> "none"]

\* ---- Stopwatch ----
NewStopwatch == [elapsed |-> 0, running |-> FALSE, cur |-> 0]
Elapsed(s) == IF s.running THEN s.elapsed + s.cur ELSE s.elapsed
\* Mutant: start() begins a fresh measurement, the accumulated time is lost.
StartStopwatchReset(s) == IF s.running THEN s ELSE [elapsed |-> 0, running |-> TRUE, cur |-> 0]

StartStopwatch(s) == IF s.running THEN s ELSE [s EXCEPT !.running = TRUE, !.cur = 0]
StopStopwatch(s) == IF s.running THEN [elapsed |-> s.elapsed + s.cur, running |-> FALSE, cur |-> 0] ELSE s

\* ---- Frontier ----
Frontier(es, t) == [task |-> t, entries |-> es]
bestPosteriorScore(f) == CHOOSE s \in {jointScore(e) : e \in f.entries} : \A e \in f.entries : jointScore(e) <= s
\* The admissible results of truncating S to its k best entries.
BestK(S, k) ==
    {T \in SUBSET S : /\ Cardinality(T) = Min(k, Cardinality(S))
                      /\ \A x \in T, y \in S \ T : jointScore(x) >= jointScore(y)}
combine(a, b, k) == {Frontier(T, a.task) : T \in BestK(a.entries \cup b.entries, k)}

\* ---- multicoreEnumeration: set-up ----
\* Mutant: the task's index is left out of the key when testing.
JobKeyNoIndex(ts, g, r, tst, i) == <<g[ts[i]], r[ts[i]]>>

\* The key of the i-th task's job (i counted from 1 here, from 0 in the code).
JobKey(ts, g, r, tst, i) ==
    IF tst THEN <<g[ts[i]], r[ts[i]], i - 1>> ELSE <<g[ts[i]], r[ts[i]]>>

KeyIndex(js, k) == CHOOSE n \in 1..Len(js) : js[n].key = k
HasKey(js, k) == \E n \in 1..Len(js) : js[n].key = k
JobKeys(js) == {js[n].key : n \in 1..Len(js)}
\* Mutant: every job's invocation also carries the first job's tasks.
JobTasksShared(js, k) ==
    IF KeyIndex(js, k) = 1 THEN js[1].tasks
    ELSE js[1].tasks \o js[KeyIndex(js, k)].tasks

JobTasks(js, k) == js[KeyIndex(js, k)].tasks

RECURSIVE GroupJobs(_, _, _, _, _, _)
GroupJobs(ts, g, r, tst, i, acc) ==
    IF i > Len(ts) THEN acc
    ELSE LET k == JobKey(ts, g, r, tst, i) IN
         IF HasKey(acc, k)
         THEN GroupJobs(ts, g, r, tst, i + 1,
                        [acc EXCEPT ![KeyIndex(acc, k)].tasks = Append(@, ts[i])])
         ELSE GroupJobs(ts, g, r, tst, i + 1, Append(acc, [key |-> k, tasks |-> <<ts[i]>>]))

InitialJobs(ts, g, r, tst) == GroupJobs(ts, g, r, tst, 1, <<>>)

\* The inputs, up to renaming.  The code reads a task, a grammar and a request
\* type only through equality, so the task list is taken in one order (the
\* ids descending, so that a task's id differs from its index) and the i-th
\* task takes either the (grammar, request) pair of an earlier task or the
\* first pair of KeyOrder not used yet.
KeyOrder == <<<<"g1", "tint">>, <<"g1", "tlist">>, <<"g2", "tint">>, <<"g2", "tlist">>>>
TaskList(n) == [i \in 1..n |-> n + 1 - i]
KeyPatterns(n) ==
    {kf \in [1..n -> 1..Min(n, Len(KeyOrder))] :
        \A i \in 1..n : \A m \in 1..(kf[i] - 1) : \E j \in 1..(i - 1) : kf[j] = m}

Init ==
    \E n \in 0..MaxTasks : \E kf \in KeyPatterns(n) :
    \E tst \in BOOLEAN, c \in 1..MaxCPUs, mf \in 1..MaxFrontier, et \in 0..MaxTimeout :
    LET ts == TaskList(n)
        g == [t \in Range(ts) |-> KeyOrder[kf[n + 1 - t]][1]]
        r == [t \in Range(ts) |-> KeyOrder[kf[n + 1 - t]][2]]
        js == InitialJobs(ts, g, r, tst)
    IN  /\ n * et <= MaxWork
        /\ tasks = ts
        /\ task2grammar = g
        /\ request = r
        /\ testing = tst
        /\ CPUs = c
        /\ maximumFrontier = mf
        /\ enumerationTimeout = et
        /\ jobs = js
        /\ disableParallelism = (Len(js) = 1)
        /\ bestSearchTime = [t \in DOMAIN g |-> None]
        /\ lowerBounds = [k \in JobKeys(js) |-> 0]
        /\ frontiers = [t \in DOMAIN g |-> Frontier({}, t)]
        /\ stopwatches = [k \in JobKeys(js) |-> NewStopwatch]
        /\ q = <<>>
        /\ activeCPUs = 0
        /\ id2CPUs = <<>>
        /\ id2job = <<>>
        /\ nextID = 0
        /\ workers = <<>>
        /\ pc = "loop"
        /\ ret = <<>>
        /\ launched = 0
        /\ dispatches = [k \in JobKeys(js) |-> 0]
        /\ enum = NoCall
        /\ adapter = NoCall

\* ---- multicoreEnumeration: local functions ----
\* logLikelihood > -0.01: on the grid of 0.5 nat, logLikelihood >= 0.
numberOfHits(f) == Cardinality({e \in f.entries : logLikelihood(e) >= 0})

\* Mutant: the heuristic below the 'if True' is used (1 below 24, then less).
budgetIncrementHeuristic(lb) == IF lb < 48 THEN 2 ELSE 1

budgetIncrement(lb) == BudgetIncrementValue

maximumFrontiers(js, j) ==
    [t \in Range(JobTasks(js, j)) |-> maximumFrontier - numberOfHits(frontiers[t])]

\* Mutant: the round-robin goes on when testing, as it does otherwise.
RECURSIVE AllocateLoopAlways(_, _, _, _)
AllocateLoopAlways(n, ts, allocation, i) ==
    IF n <= 0 THEN allocation
    ELSE AllocateLoopAlways(n - 1, ts, [allocation EXCEPT ![ts[i]] = @ + 1],
                            IF i = Len(ts) THEN 1 ELSE i + 1)

\* allocateCPUs: the while loop over the for loop, at position i of the list.
RECURSIVE AllocateLoop(_, _, _, _)
AllocateLoop(n, ts, allocation, i) ==
    IF n <= 0 THEN allocation
    ELSE LET t == ts[i] IN
         IF testing /\ allocation[t] > 0 THEN allocation
         ELSE AllocateLoop(n - 1, ts, [allocation EXCEPT ![t] = @ + 1],
                           IF i = Len(ts) THEN 1 ELSE i + 1)

\* Mutant: every free job is given a CPU before n is looked at.
allocateCPUsOneEach(n, ts) == AllocateLoop(n - Len(ts), ts, [t \in Range(ts) |-> 1], 1)

allocateCPUs(n, ts) == AllocateLoop(n, ts, [t \in Range(ts) |-> 0], 1)

\* Mutant: refreshJobs drops no task.
KeepTaskAlways(k, t) == TRUE

\* A task stays in its job while it lacks hits and the job's time is not used up.
KeepTask(k, t) ==
    /\ numberOfHits(frontiers[t]) < maximumFrontier
    /\ Elapsed(stopwatches[k]) <= enumerationTimeout

RECURSIVE FilterTasks(_, _)
FilterTasks(k, ts) ==
    IF ts = <<>> THEN <<>>
    ELSE IF KeepTask(k, Head(ts)) THEN <<Head(ts)>> \o FilterTasks(k, Tail(ts))
         ELSE FilterTasks(k, Tail(ts))

RECURSIVE RefreshLoop(_)
RefreshLoop(js) ==
    IF js = <<>> THEN <<>>
    ELSE LET v == FilterTasks(Head(js).key, Head(js).tasks) IN
         IF v # <<>> THEN <<[key |-> Head(js).key, tasks |-> v]>> \o RefreshLoop(Tail(js))
         ELSE RefreshLoop(Tail(js))

refreshJobs == RefreshLoop(jobs)

\* Mutant: a job that is being worked on counts as free.
IsFreeWhileRunning(j) == Elapsed(stopwatches[j]) < enumerationTimeout - Epsilon

\* Mutant: the 0.5 s epsilon is left out.
IsFreeNoEpsilon(j) ==
    /\ ~stopwatches[j].running
    /\ Elapsed(stopwatches[j]) < enumerationTimeout

IsFree(j) ==
    /\ ~stopwatches[j].running
    /\ Elapsed(stopwatches[j]) < enumerationTimeout - Epsilon

RECURSIVE FreeLoop(_)
FreeLoop(js) ==
    IF js = <<>> THEN <<>>
    ELSE IF IsFree(Head(js).key) THEN <<Head(js).key>> \o FreeLoop(Tail(js))
         ELSE FreeLoop(Tail(js))

freeJobs(js) == FreeLoop(js)

\* Mutant: the free jobs are left in the order of the jobs dict.
sortByLowerBoundNot(s) == s

\* list.sort(key = lowerBounds): stable, ascending.
RECURSIVE InsertByLowerBound(_, _)
InsertByLowerBound(s, j) ==
    IF s = <<>> THEN <<j>>
    ELSE IF lowerBounds[Head(s)] <= lowerBounds[j]
         THEN <<Head(s)>> \o InsertByLowerBound(Tail(s), j)
         ELSE <<j>> \o s

RECURSIVE SortLoop(_, _)
SortLoop(s, acc) ==
    IF s = <<>> THEN acc ELSE SortLoop(Tail(s), InsertByLowerBound(acc, Head(s)))

sortByLowerBound(s) == SortLoop(s, <<>>)

\* ---- the worker side: wrapInThread around a solver ----
\* What a solver can return for the invocation inv when it has run for dur
\* ticks: for every task at most maximumFrontiers[t] programs of the window,
\* and a search time exactly for the tasks with a program.
SearchTimes(inv, dur) == {inv.elapsedTime + dur}

\* Mutant: the solver reports a search time for a task it found nothing for.
SolverValuesAlwaysTimed(inv, dur) ==
    {[newFrontiers |-> [t \in DOMAIN nf |-> Frontier(nf[t], t)],
      searchTimes |-> [t \in DOMAIN nf |-> dt]] :
        nf \in {f \in [Range(inv.tasks) -> SUBSET WindowPrograms(inv.lowerBound, inv.upperBound)] :
                    \A t \in DOMAIN f : Cardinality(f[t]) <= inv.maximumFrontiers[t]},
        dt \in SearchTimes(inv, dur)}

SolverValues(inv, dur) ==
    {[newFrontiers |-> [t \in DOMAIN nf |-> Frontier(nf[t], t)],
      searchTimes |-> [t \in DOMAIN nf |-> IF nf[t] = {} THEN None ELSE dt]] :
        nf \in {f \in [Range(inv.tasks) -> SUBSET WindowPrograms(inv.lowerBound, inv.upperBound)] :
                    \A t \in DOMAIN f : Cardinality(f[t]) <= inv.maximumFrontiers[t]},
        dt \in SearchTimes(inv, dur)}

\* wrapInThread: one message, success with the value or failure.
SuccessMessages(inv, dur) ==
    {[result |-> "success", ID |-> inv.ID, value |-> v] : v \in SolverValues(inv, dur)}

FailureMessages(inv, dur) == {[result |-> "failure", ID |-> inv.ID]}

WorkerMessages(inv, dur) == SuccessMessages(inv, dur) \cup FailureMessages(inv, dur)

\* The messages of an invocation, or only those of one that raises nothing.
Messages(succeeds, inv, dur) ==
    IF succeeds THEN SuccessMessages(inv, dur) ELSE WorkerMessages(inv, dur)

\* ---- multicoreEnumeration: one iteration of the loop up to q.get() ----
\* Mutant: launchParallelProcess is used whatever the number of jobs.
UseSynchronousCallNever == FALSE

\* parallelCallback calls the wrapped solver in the coordinator itself.
UseSynchronousCall == disableParallelism

RECURSIVE LaunchLoop(_, _)
LaunchLoop(s, allocation) ==
    IF s = <<>> THEN <<>>
    ELSE IF allocation[Head(s)] = 0 THEN LaunchLoop(Tail(s), allocation)
         ELSE <<Head(s)>> \o LaunchLoop(Tail(s), allocation)

\* Mutant: every invocation is given the whole enumerationTimeout.
InvocationWholeTimeout(js, j, id, cpus) ==
    [ID |-> id, job |-> j, CPUs |-> cpus, tasks |-> JobTasks(js, j),
     lowerBound |-> lowerBounds[j],
     upperBound |-> lowerBounds[j] + budgetIncrement(lowerBounds[j]),
     timeout |-> enumerationTimeout,
     elapsedTime |-> Elapsed(StartStopwatch(stopwatches[j])),
     maximumFrontiers |-> maximumFrontiers(js, j),
     posted |-> UseSynchronousCall]

Invocation(js, j, id, cpus) ==
    [ID |-> id, job |-> j, CPUs |-> cpus, tasks |-> JobTasks(js, j),
     lowerBound |-> lowerBounds[j],
     upperBound |-> lowerBounds[j] + budgetIncrement(lowerBounds[j]),
     timeout |-> enumerationTimeout - Elapsed(stopwatches[j]),
     elapsedTime |-> Elapsed(StartStopwatch(stopwatches[j])),
     maximumFrontiers |-> maximumFrontiers(js, j),
     posted |-> UseSynchronousCall]

\* Mutant: the loop is left as soon as some stopwatch is not running.
NothingRunningAny(sw) == \E k \in DOMAIN sw : ~sw[k].running

\* Mutant: no stopwatch at all does not count as nothing running.
NothingRunningNonEmpty(sw) == DOMAIN sw # {} /\ \A k \in DOMAIN sw : ~sw[k].running

NothingRunning(sw) == \A k \in DOMAIN sw : ~sw[k].running

\* Mutant: the frontiers of the tasks still in a job, in the order of the jobs.
RECURSIVE TasksOfJobs(_)
TasksOfJobs(js) == IF js = <<>> THEN <<>> ELSE Head(js).tasks \o TasksOfJobs(Tail(js))
ReturnValueByJobs ==
    <<[i \in 1..Len(TasksOfJobs(jobs)) |-> frontiers[TasksOfJobs(jobs)[i]]], bestSearchTime>>

\* return [frontiers[t] for t in tasks], bestSearchTime
ReturnValue == <<[i \in 1..Len(tasks) |-> frontiers[tasks[i]]], bestSearchTime>>

\* ---- one pass of the loop, from refreshJobs() to the exit test ----
\* Mutant: a job's lowerBound is left as it is when the job is dispatched.
advanceLowerBoundsNot(launch) == lowerBounds

\* lowerBounds[j] += bi, for the jobs dispatched in this pass
advanceLowerBounds(launch) ==
    [k \in DOMAIN lowerBounds |->
        IF k \in Range(launch) THEN lowerBounds[k] + budgetIncrement(lowerBounds[k])
        ELSE lowerBounds[k]]

ScheduleWith(succeeds) ==
    /\ pc = "loop"
    /\ LET js == refreshJobs
           free == sortByLowerBound(freeJobs(js))
           allocating == free # <<>> /\ activeCPUs < CPUs
           availableCPUs == CPUs - activeCPUs
           allocation == allocateCPUs(availableCPUs, free)
           launch == IF allocating THEN LaunchLoop(free, allocation) ELSE <<>>
           n == Len(launch)
           new == [id \in nextID..(nextID + n - 1) |->
                      Invocation(js, launch[id - nextID + 1], id, allocation[launch[id - nextID + 1]])]
       IN
       /\ jobs' = js
       /\ id2CPUs' = id2CPUs @@ [id \in DOMAIN new |-> new[id].CPUs]
       /\ id2job' = id2job @@ [id \in DOMAIN new |-> new[id].job]
       /\ nextID' = nextID + n
       /\ activeCPUs' = activeCPUs + SumOver([id \in DOMAIN new |-> new[id].CPUs], DOMAIN new)
       /\ lowerBounds' = advanceLowerBounds(launch)
       /\ dispatches' = [k \in DOMAIN dispatches |->
                            IF k \in Range(launch) THEN dispatches[k] + 1 ELSE dispatches[k]]
       /\ workers' = workers @@ new
       /\ IF n > 0 /\ UseSynchronousCall
          THEN \* the solver runs here, for dur ticks, and its message is queued
               \E dur \in 1..MaxDur : \E m \in UNION {Messages(succeeds, new[id], dur) : id \in DOMAIN new} :
                   /\ q' = Append(q, m)
                   /\ stopwatches' = [k \in DOMAIN stopwatches |->
                                         IF k \in Range(launch)
                                         THEN [StartStopwatch(stopwatches[k]) EXCEPT !.cur = dur]
                                         ELSE stopwatches[k]]
                   /\ launched' = launched
          ELSE /\ q' = q
               /\ stopwatches' = [k \in DOMAIN stopwatches |->
                                     IF k \in Range(launch) THEN StartStopwatch(stopwatches[k])
                                     ELSE stopwatches[k]]
               /\ launched' = launched + n
       /\ IF NothingRunning(stopwatches')
          THEN pc' = "done" /\ ret' = ReturnValue
          ELSE pc' = "wait" /\ ret' = ret
    /\ UNCHANGED <<inputs, frontiers, bestSearchTime, enum, adapter>>

Schedule == ScheduleWith(FALSE)

\* ---- a worker process posts its message ----
\* Mutant: a worker that has posted its message may post again.
WorkerPostWithAgain(id, succeeds) ==
    /\ pc \in {"loop", "wait"}
    /\ id \in DOMAIN workers
    /\ stopwatches[workers[id].job].cur >= 1
    /\ \E m \in Messages(succeeds, workers[id], stopwatches[workers[id].job].cur) :
           q' = Append(q, m)
    /\ workers' = [workers EXCEPT ![id].posted = TRUE]
    /\ UNCHANGED <<inputs, jobs, lowerBounds, stopwatches, frontiers, bestSearchTime,
                   activeCPUs, id2CPUs, id2job, nextID, pc, ret, history, enum, adapter>>

WorkerPostWith(id, succeeds) ==
    /\ pc \in {"loop", "wait"}
    /\ id \in DOMAIN workers
    /\ ~workers[id].posted
    /\ stopwatches[workers[id].job].cur >= 1
    /\ \E m \in Messages(succeeds, workers[id], stopwatches[workers[id].job].cur) :
           q' = Append(q, m)
    /\ workers' = [workers EXCEPT ![id].posted = TRUE]
    /\ UNCHANGED <<inputs, jobs, lowerBounds, stopwatches, frontiers, bestSearchTime,
                   activeCPUs, id2CPUs, id2job, nextID, pc, ret, history, enum, adapter>>

WorkerPost(id) == WorkerPostWith(id, FALSE)

\* ---- half a second passes on every running stopwatch ----
\* The coordinator takes a queued message at once: no time passes while one waits.
Tick ==
    /\ pc = "wait"
    /\ q = <<>>
    /\ \E k \in DOMAIN stopwatches : stopwatches[k].running
    /\ \A k \in DOMAIN stopwatches : stopwatches[k].running => stopwatches[k].cur < MaxDur
    /\ stopwatches' = [k \in DOMAIN stopwatches |->
                          IF stopwatches[k].running THEN [stopwatches[k] EXCEPT !.cur = @ + 1]
                          ELSE stopwatches[k]]
    /\ UNCHANGED <<inputs, jobs, lowerBounds, frontiers, bestSearchTime, q,
                   activeCPUs, id2CPUs, id2job, nextID, workers, pc, ret, history, enum, adapter>>

\* ---- multicoreEnumeration: q.get() and the handling of the message ----
\* Mutant: the new entries are added to the old ones without combine.
MergeFrontierByUnion(old, f) == {Frontier(old.entries \cup f.entries, old.task)}

\* Mutant: the new Frontier replaces the old one.
MergeFrontierReplace(old, f) == {f}

\* frontiers[t] = frontiers[t].combine(f)
MergeFrontier(old, f) == combine(old, f, maximumFrontier)

\* Mutant: the failure is logged and the loop goes on.
AfterFailureContinue == "loop"

\* assert False on a failure message: the run ends with the error.
AfterFailure == "aborted"

\* Mutant: the job's stopwatch is left running.
StopJobStopwatchNot(sw, j) == sw

\* Mutant: every stopwatch is stopped.
StopJobStopwatchAll(sw, j) == [k \in DOMAIN sw |-> StopStopwatch(sw[k])]

\* stopwatches[id2job[message.ID]].stop()
StopJobStopwatch(sw, j) == [sw EXCEPT ![j] = StopStopwatch(@)]

AssertionFails(t, oldF, newF, dt) ==
    /\ dt # None
    /\ bestSearchTime[t] # None
    /\ (oldF.entries = {} \/ newF.entries = {})

\* Mutant: bestSearchTime[t] = dt whatever dt is.
UpdatedSearchTimeAlways(t, oldF, newF, dt) == dt

\* Mutant: >= in place of >, an equal score takes the later time.
UpdatedSearchTimeOnEqual(t, oldF, newF, dt) ==
    IF dt = None THEN bestSearchTime[t]
    ELSE IF bestSearchTime[t] = None THEN dt
    ELSE IF bestPosteriorScore(newF) >= bestPosteriorScore(oldF) THEN dt
         ELSE bestSearchTime[t]

UpdatedSearchTime(t, oldF, newF, dt) ==
    IF dt = None THEN bestSearchTime[t]
    ELSE IF bestSearchTime[t] = None THEN dt
    ELSE LET newScore == bestPosteriorScore(newF)
             oldScore == bestPosteriorScore(oldF)
         IN IF newScore > oldScore THEN dt
            ELSE IF newScore = oldScore THEN Min(bestSearchTime[t], dt)
            ELSE bestSearchTime[t]

Receive ==
    /\ pc = "wait"
    /\ q # <<>>
    /\ LET message == Head(q) IN
       /\ q' = Tail(q)
       /\ IF message.result = "failure"
          THEN /\ pc' = AfterFailure
               /\ UNCHANGED <<workers, activeCPUs, stopwatches, frontiers, bestSearchTime, id2CPUs, id2job>>
          ELSE LET newFrontiers == message.value.newFrontiers
                   searchTimes == message.value.searchTimes
               IN
               /\ activeCPUs' = activeCPUs - id2CPUs[message.ID]
               /\ stopwatches' = StopJobStopwatch(stopwatches, id2job[message.ID])
               /\ workers' = [id \in DOMAIN workers \ {message.ID} |-> workers[id]]
               \* an ID's entries are read when its one message arrives and never
               \* again: they are dropped here to keep the state small
               /\ id2CPUs' = [id \in DOMAIN id2CPUs \ {message.ID} |-> id2CPUs[id]]
               /\ id2job' = [id \in DOMAIN id2job \ {message.ID} |-> id2job[id]]
               /\ \E merged \in [DOMAIN newFrontiers -> UNION {MergeFrontier(frontiers[t], newFrontiers[t]) : t \in DOMAIN newFrontiers}] :
                     /\ \A t \in DOMAIN newFrontiers : merged[t] \in MergeFrontier(frontiers[t], newFrontiers[t])
                     /\ frontiers' = [t \in DOMAIN frontiers |->
                                         IF t \in DOMAIN merged THEN merged[t] ELSE frontiers[t]]
                     /\ IF \E t \in DOMAIN merged : AssertionFails(t, frontiers[t], merged[t], searchTimes[t])
                        THEN pc' = "aborted" /\ bestSearchTime' = bestSearchTime
                        ELSE /\ pc' = "loop"
                             /\ bestSearchTime' = [t \in DOMAIN bestSearchTime |->
                                    IF t \in DOMAIN merged
                                    THEN UpdatedSearchTime(t, frontiers[t], merged[t], searchTimes[t])
                                    ELSE bestSearchTime[t]]
    /\ UNCHANGED <<inputs, jobs, lowerBounds, nextID, ret, history, enum, adapter>>

Next ==
    \/ Schedule
    \/ \E id \in DOMAIN workers : WorkerPost(id)
    \/ Tick
    \/ Receive

Spec == Init /\ [][Next]_vars

\* ---- the runs in which no solver invocation fails ----
ScheduleOK == ScheduleWith(TRUE)
WorkerPostOK(id) == WorkerPostWith(id, TRUE)

NextOK ==
    \/ ScheduleOK
    \/ \E id \in DOMAIN workers : WorkerPostOK(id)
    \/ Tick
    \/ Receive

\* The coordinator runs when it can, time passes, and some in-flight
\* invocation that has not posted its message does so.  ScheduleOK is enabled
\* exactly when pc = "loop" and always leaves it, so that its weak fairness,
\* WF_vars(ScheduleOK), is the formula []<>(pc # "loop"); Receive is enabled
\* exactly when pc = "wait" with a message in the queue and always leaves
\* "wait", so that WF_vars(Receive) is []<>~(pc = "wait" /\ q # <<>>).  Both
\* are written in the form TLC evaluates quickly.
LiveSpec ==
    /\ Init
    /\ [][NextOK]_vars
    /\ []<>(pc # "loop")
    /\ []<>(~(pc = "wait" /\ q # <<>>))
    /\ WF_vars(Tick)
    /\ WF_vars(\E id \in DOMAIN workers : WorkerPostOK(id))

\* ======================= enumerateForTasks =======================
\* The scheduler's variables while a solver call is followed on its own.
SchedulerIdle ==
    /\ tasks = <<>> /\ task2grammar = <<>> /\ request = <<>>
    /\ testing = FALSE /\ CPUs = 1 /\ maximumFrontier = 1 /\ enumerationTimeout = 0
    /\ disableParallelism = FALSE /\ jobs = <<>> /\ lowerBounds = <<>>
    /\ stopwatches = <<>> /\ frontiers = <<>> /\ bestSearchTime = <<>>
    /\ q = <<>> /\ activeCPUs = 0 /\ id2CPUs = <<>> /\ id2job = <<>> /\ nextID = 0
    /\ workers = <<>> /\ pc = "idle" /\ ret = <<>> /\ launched = 0
    /\ dispatches = <<>>

\* ---- the Grammar and the likelihood model the call is given ----
\* The programs of the grammar: the grammar "one" has the single program 0.
GrammarPrograms(g) == IF g = "one" THEN {0} ELSE Programs

\* g.enumeration(lowerBound = lb, upperBound = ub): the programs it yields.
\* A conforming Grammar yields the programs of (lb, ub]; one that does not
\* conform yields those of [lb, ub).
Enumeration(g, conforming, lb, ub) ==
    IF conforming
    THEN {p \in GrammarPrograms(g) : descriptionLength(p) > lb /\ descriptionLength(p) <= ub}
    ELSE {p \in GrammarPrograms(g) : descriptionLength(p) >= lb /\ descriptionLength(p) < ub}

\* The programs are yielded in non-decreasing description length.
NextYields(pending) ==
    {p \in pending : \A o \in pending : descriptionLength(p) <= descriptionLength(o)}

\* likelihoodModel.score(p, task): program 1 does not apply to the second
\* task nor program 3 to the first, every other pair succeeds with the
\* program's likelihood.
ScoreSucceeds(p, n) == ~(n = 2 /\ p = 1) /\ ~(n = 1 /\ p = 3)

\* Mutant: the first task the program does not apply to ends its scoring.
TasksScoredUntilFailure(p, ts) ==
    {n \in ts : \A m \in ts : m <= n => ScoreSucceeds(p, m)}

\* for n in range(len(tasks)): ... if not success: continue
TasksScored(p, ts) == {n \in ts : ScoreSucceeds(p, n)}

\* ---- the arguments of a call ----
EnumCalls ==
    [grammar : {"G", "one"}, conforming : BOOLEAN,
     tasks : {1..n : n \in 1..MaxEnumTasks},
     capacity : 1..MaxCapacity,
     lowerBound : {0, BudgetIncrementValue},
     wide : BOOLEAN,
     timeout : 0..MaxEnumTimeout,
     elapsedTime : {0, 1}]

EnumInit ==
    /\ SchedulerIdle
    /\ adapter = NoCall
    /\ \E c \in EnumCalls :
          enum = [pc |-> "while",
                  grammar |-> c.grammar, conforming |-> c.conforming,
                  tasks |-> c.tasks,
                  maximumFrontiers |-> [n \in c.tasks |-> c.capacity],
                  lowerBound |-> c.lowerBound,
                  \* one window, or the 5 nats of upperBound=5
                  upperBound |-> IF c.wide THEN 10 ELSE c.lowerBound + BudgetIncrementValue,
                  budgetIncrement |-> BudgetIncrementValue,
                  timeout |-> c.timeout, elapsedTime |-> c.elapsedTime,
                  now |-> 0,                          \* time() - starting
                  previousBudget |-> c.lowerBound,
                  budget |-> c.lowerBound + BudgetIncrementValue,
                  pending |-> {},                     \* what the for loop has yet to yield
                  p |-> None,                         \* the program of the last iteration
                  hits |-> [n \in c.tasks |-> {}],
                  \* the programs scored with success so far, task by task
                  scored |-> [n \in c.tasks |-> {}],
                  frontiers |-> <<>>, searchTimes |-> <<>>]

\* ---- the priority queue of a task ----
\* Mutant: popMaximum() takes the entry of least priority, the best one.
WorstByMinimum(h) == {x \in h : \A y \in h : x.priority <= y.priority}

\* popMaximum(): an entry of the greatest priority, the worst joint score
Worst(h) == {x \in h : \A y \in h : y.priority <= x.priority}
\* hits[n].push(priority, (dt, entry)), then popMaximum() when over capacity
PushBounded(h, x, cap) ==
    IF Cardinality(h \cup {x}) > cap
    THEN {(h \cup {x}) \ {w} : w \in Worst(h \cup {x})}
    ELSE {h \cup {x}}

\* Mutant: the two window assertions are left out.
InWindowUnchecked(d, previousBudget, budget) == TRUE

\* assert descriptionLength <= budget; assert descriptionLength > previousBudget
InWindow(d, previousBudget, budget) == d <= budget /\ d > previousBudget

\* Mutant: the test that some hit queue has room is left out.
WhileConditionNoRoomTest(e) ==
    /\ e.now < e.timeout
    /\ e.budget <= e.upperBound

\* Mutant: <= in the test of the time.
WhileConditionInclusive(e) ==
    /\ e.now <= e.timeout
    /\ \E n \in e.tasks : Cardinality(e.hits[n]) < e.maximumFrontiers[n]
    /\ e.budget <= e.upperBound

\* while time() < starting + timeout and any(len(h) < mf ...) and budget <= upperBound
WhileCondition(e) ==
    /\ e.now < e.timeout
    /\ \E n \in e.tasks : Cardinality(e.hits[n]) < e.maximumFrontiers[n]
    /\ e.budget <= e.upperBound

\* Mutant: >= in the test of the time after a program.
TimedOutInclusive(e) == e.now >= e.timeout

\* Mutant: the time is not looked at inside a window.
TimedOutNever(e) == FALSE

\* time() - starting > timeout, after a program has been scored
TimedOut(e) == e.now > e.timeout

\* The while test: it enters the window or leaves the loop.
EnumWhile ==
    /\ enum.pc = "while"
    /\ enum' = IF WhileCondition(enum)
               THEN [enum EXCEPT !.pc = "for",
                                 !.pending = Enumeration(enum.grammar, enum.conforming,
                                                         enum.previousBudget, enum.budget)]
               ELSE [enum EXCEPT !.pc = "return"]
    /\ UNCHANGED <<scheduler, adapter>>

\* One iteration of the for loop: the next program is checked against the
\* window, scored on every task, and the time is looked at.
EnumProgram ==
    /\ enum.pc = "for"
    /\ \E p \in NextYields(enum.pending) :
          IF ~InWindow(descriptionLength(p), enum.previousBudget, enum.budget)
          THEN enum' = [enum EXCEPT !.pc = "raised", !.p = p, !.pending = @ \ {p}]
          ELSE LET x == [priority |-> 0 - jointScore(p), dt |-> enum.now + enum.elapsedTime, p |-> p]
                   pushed(n) == IF n \in TasksScored(p, enum.tasks)
                                THEN PushBounded(enum.hits[n], x, enum.maximumFrontiers[n])
                                ELSE {enum.hits[n]}
               IN \E h \in [enum.tasks -> UNION {pushed(n) : n \in enum.tasks}] :
                  /\ \A n \in enum.tasks : h[n] \in pushed(n)
                  /\ enum' = [enum EXCEPT !.hits = h, !.p = p, !.pending = @ \ {p},
                                          !.scored = [n \in enum.tasks |->
                                                         IF n \in TasksScored(p, enum.tasks)
                                                         THEN @[n] \cup {p}
                                                         ELSE @[n]],
                                          \* raise EnumerationTimeout, caught below the loop
                                          !.pc = IF TimedOut(enum) THEN "return" ELSE "for"]
    /\ UNCHANGED <<scheduler, adapter>>

\* The for loop is over: the window moves on, and the loop is left when the
\* budget passes upperBound.
EnumEndWindow ==
    /\ enum.pc = "for"
    /\ enum.pending = {}
    /\ enum' = [enum EXCEPT !.previousBudget = enum.budget,
                            !.budget = enum.budget + enum.budgetIncrement,
                            !.pc = IF enum.budget + enum.budgetIncrement > enum.upperBound
                                   THEN "return" ELSE "while"]
    /\ UNCHANGED <<scheduler, adapter>>

MinTime(h) == CHOOSE t \in {x.dt : x \in h} : \A x \in h : t <= x.dt

\* The Frontiers and the search times returned.
EnumReturn ==
    /\ enum.pc = "return"
    /\ enum' = [enum EXCEPT !.pc = "done",
                            !.frontiers = [n \in enum.tasks |-> Frontier({x.p : x \in enum.hits[n]}, n)],
                            !.searchTimes = [n \in enum.tasks |->
                                                IF enum.hits[n] = {} THEN None ELSE MinTime(enum.hits[n])]]
    /\ UNCHANGED <<scheduler, adapter>>

\* Half a second passes while the call runs.
EnumTick ==
    /\ enum.pc \in {"while", "for"}
    /\ enum.now <= enum.timeout
    /\ enum' = [enum EXCEPT !.now = @ + 1]
    /\ UNCHANGED <<scheduler, adapter>>

EnumNext ==
    \/ EnumWhile
    \/ EnumProgram
    \/ EnumEndWindow
    \/ EnumReturn
    \/ EnumTick

EnumSpec == EnumInit /\ [][EnumNext]_vars

\* ---- solveForTask_ocaml: the solver process and its response ----
\* A solution's logPrior field: absent, or one value.
Absent == <<>>
LogPriorFields == {Absent, <<0 - 1>>, <<0 - 3>>}

\* The solutions the solver can write: {program, logLikelihood, time} and
\* possibly logPrior.
Solutions ==
    [program : {1, 2}, logLikelihood : {0, 0 - 2}, time : {0, 1},
     logPrior : LogPriorFields]

RECURSIVE SubsetsUpTo(_, _)
SubsetsUpTo(S, k) ==
    IF k = 0 THEN {{}}
    ELSE LET smaller == SubsetsUpTo(S, k - 1)
         IN  smaller \cup {s \cup {x} : s \in smaller, x \in S}

\* The responses that are JSON: every task name mapped to its solutions, the
\* programs of one task distinct.
Responses(ts) ==
    LET named == SubsetsUpTo(ts \X Solutions, MaxSolutions)
        of(S, t) == {x[2] : x \in {y \in S : y[1] = t}}
        distinct(S) == \A x \in S, y \in S :
                          x[1] = y[1] /\ x[2].program = y[2].program => x = y
    IN  {[t \in ts |-> of(S, t)] : S \in {N \in named : distinct(N)}}

\* What the solver writes on its standard output: JSON or not.
Malformed == [json |-> FALSE, text |-> <<>>]
Stdouts(ts) == {Malformed} \cup [json : {TRUE}, text : Responses(ts)]

\* The calls: the solver cannot be started (OSError), or it runs, writes its
\* standard output and exits with a status.
AdapterCalls ==
    UNION {[tasks : {1..n}, elapsedTime : {0, 1}, started : {FALSE},
            returncode : {0}, stdout : {Malformed}]
           \cup [tasks : {1..n}, elapsedTime : {0, 1}, started : {TRUE},
                 returncode : {0, 1}, stdout : Stdouts(1..n)]
           : n \in 1..MaxAdapterTasks}

AdapterInit ==
    /\ SchedulerIdle
    /\ enum = NoCall
    /\ \E c \in AdapterCalls :
          adapter = [pc |-> "communicate",
                     tasks |-> c.tasks, elapsedTime |-> c.elapsedTime,
                     started |-> c.started, returncode |-> c.returncode,
                     stdout |-> c.stdout,
                     response |-> <<>>, todo |-> c.tasks,
                     frontiers |-> <<>>, searchTimes |-> <<>>]

\* ---- solveForTask_ocaml: the call ----
\* Popen, communicate and json.loads.  OSError is raised again, any other
\* exception ends in 'assert False'; the exit status is not looked at.
AdapterCommunicate ==
    /\ adapter.pc = "communicate"
    /\ IF ~adapter.started \/ ~adapter.stdout.json
       THEN adapter' = [adapter EXCEPT !.pc = "raised"]
       ELSE adapter' = [adapter EXCEPT !.pc = "for",
                                       !.response = adapter.stdout.text]
    /\ UNCHANGED <<scheduler, enum>>

\* The Frontier of a task: the response's program and logLikelihood, the
\* Grammar's logPrior.
AdapterFrontier(solutions) ==
    {[program |-> e.program, logLikelihood |-> e.logLikelihood,
      logPrior |-> 0 - descriptionLength(e.program)] : e \in solutions}

\* e["logPrior"] of a solution without the field.
KeyError(solutions) == \E e \in solutions : e.logPrior = Absent

\* min((e["logLikelihood"] + e["logPrior"], e["time"]) for e in solutions)[1]
MinScoreTime(solutions) ==
    LET key(e) == <<e.logLikelihood + e.logPrior[1], e.time>>
        least == CHOOSE e \in solutions : \A o \in solutions :
                    \/ key(e)[1] < key(o)[1]
                    \/ key(e)[1] = key(o)[1] /\ key(e)[2] <= key(o)[2]
    IN  least.time

AdapterSearchTime(solutions, elapsedTime) ==
    IF solutions = {} THEN None ELSE MinScoreTime(solutions) + elapsedTime

\* One iteration of 'for t in tasks'.
AdapterTask ==
    /\ adapter.pc = "for"
    /\ adapter.todo # {}
    /\ LET t == CHOOSE n \in adapter.todo : \A o \in adapter.todo : n <= o
           solutions == adapter.response[t]
       IN  IF KeyError(solutions)
           THEN adapter' = [adapter EXCEPT !.pc = "raised"]
           ELSE adapter' =
                  [adapter EXCEPT
                     !.todo = @ \ {t},
                     !.frontiers = @ @@ (t :> AdapterFrontier(solutions)),
                     !.searchTimes =
                         @ @@ (t :> AdapterSearchTime(solutions, adapter.elapsedTime))]
    /\ UNCHANGED <<scheduler, enum>>

AdapterReturn ==
    /\ adapter.pc = "for"
    /\ adapter.todo = {}
    /\ adapter' = [adapter EXCEPT !.pc = "done"]
    /\ UNCHANGED <<scheduler, enum>>

AdapterNext ==
    \/ AdapterCommunicate
    \/ AdapterTask
    \/ AdapterReturn

AdapterSpec == AdapterInit /\ [][AdapterNext]_vars


\* ======================= the claims =======================
InFlight == DOMAIN workers
InFlightCPUs == SumOver([id \in InFlight |-> workers[id].CPUs], InFlight)
SingleJob == Len(InitialJobs(tasks, task2grammar, request, testing)) = 1
Hits(t) == numberOfHits(frontiers[t])

C2_CPUsBounded ==
    /\ [](activeCPUs >= 0 /\ activeCPUs <= CPUs /\ InFlightCPUs <= CPUs)
    /\ [][SumOver([id \in DOMAIN workers' \ DOMAIN workers |-> workers'[id].CPUs],
                  DOMAIN workers' \ DOMAIN workers) <= CPUs - activeCPUs]_vars

\* Two invocations in flight that hold all the CPUs, after an earlier round.
C2_Witness ==
    /\ Cardinality(InFlight) = 2 /\ activeCPUs = CPUs /\ nextID >= 3

\* C3: no task is in the task lists of two in-flight invocations, and no two
\* queued messages carry a Frontier for the same task.
C3_TasksDisjoint ==
    /\ \A a, b \in InFlight : a # b => Range(workers[a].tasks) \cap Range(workers[b].tasks) = {}
    /\ \A i, j \in 1..Len(q) :
          (i # j /\ q[i].result = "success" /\ q[j].result = "success")
          => DOMAIN q[i].value.newFrontiers \cap DOMAIN q[j].value.newFrontiers = {}

\* Two success messages are queued, one of a job dispatched a second time.
C3_Witness ==
    /\ Len(q) = 2 /\ q[1].result = "success" /\ q[2].result = "success"
    /\ nextID >= 3

\* C4: the step that consumes a failure message aborts the run: no Frontier
\* or search time changes, nothing is dispatched, nothing is returned, and
\* the aborted run takes no further step.
C4_FailureAborts ==
    [][/\ (pc = "wait" /\ q # <<>> /\ Head(q).result = "failure" /\ q' = Tail(q))
          => (pc' = "aborted" /\ frontiers' = frontiers /\ bestSearchTime' = bestSearchTime
              /\ nextID' = nextID /\ workers' = workers /\ ret' = <<>>)
       /\ pc = "aborted" => UNCHANGED scheduler]_vars

\* The run aborted after another job's Frontier was merged and while another
\* invocation was still in flight.
C4_Witness ==
    /\ pc = "aborted"
    /\ Cardinality(InFlight) = 2
    /\ \E t \in DOMAIN frontiers : frontiers[t].entries # {}

\* C5: when no invocation fails, each one posts its message and takes at
\* least a tick, the run returns.
C5_Returns == <>(pc = "done")

\* The run has returned with a task unsolved, its Frontier empty.
C5_Witness ==
    /\ pc = "done" /\ nextID >= 2
    /\ \E t \in DOMAIN frontiers : frontiers[t].entries = {}

\* C6: with an empty task list every step of the run is the first iteration,
\* which returns ([], {}) with nothing dispatched and nothing queued.
C6_NoTasks ==
    [][tasks = <<>> => /\ pc = "loop" /\ pc' = "done"
                       /\ ret' = <<<<>>, <<>>>>
                       /\ nextID' = 0 /\ workers' = <<>> /\ q' = <<>> /\ launched' = 0]_vars

C6_Witness == tasks = <<>> /\ pc = "done" /\ ret = <<<<>>, <<>>>>

\* C7: with one initial job no invocation goes through launchParallelProcess,
\* at most one is outstanding, and its message is queued whenever the
\* coordinator waits.
C7_SingleJobSynchronous ==
    SingleJob =>
        /\ launched = 0
        /\ Cardinality(InFlight) <= 1
        /\ \A id \in InFlight : workers[id].posted
        /\ pc = "wait" => Len(q) = 1

\* The coordinator waits for the message of the job's second invocation.
C7_Witness == SingleJob /\ pc = "wait" /\ nextID = 2 /\ Len(q) = 1

\* C8, as stated: a run with one job has invoked the solver exactly once
\* when it returns.
C8_InvokedOnce == (SingleJob /\ pc = "done") => nextID = 1

\* C8, amended: a run with one job invokes the solver once per window it
\* dispatches, one after the other; it invokes it at least once exactly when
\* enumerationTimeout exceeds the epsilon, and when it returns the job has no
\* task left or has used up its time.
C8_InvokedOncePerWindow ==
    SingleJob =>
        /\ Cardinality(InFlight) <= 1
        /\ \A k \in DOMAIN lowerBounds : lowerBounds[k] = nextID * BudgetIncrementValue
        /\ pc = "done" =>
              /\ (nextID >= 1 <=> enumerationTimeout > Epsilon)
              /\ \/ jobs = <<>>
                 \/ \A k \in DOMAIN stopwatches : Elapsed(stopwatches[k]) >= enumerationTimeout - Epsilon

\* A run with one job has returned after two invocations.
C8_Witness == SingleJob /\ pc = "done" /\ nextID = 2

\* C9: when testing, every job's task list has length 1.
C9_TestingOneTaskPerJob ==
    testing => \A i \in 1..Len(jobs) : Len(jobs[i].tasks) = 1

\* Testing, two tasks of one grammar and request type, both dispatched.
C9_Witness ==
    /\ testing /\ Len(tasks) = 2 /\ Len(jobs) = 2 /\ nextID >= 2
    /\ task2grammar[tasks[1]] = task2grammar[tasks[2]]
    /\ request[tasks[1]] = request[tasks[2]]

\* C10: the returned list has the length of the task list, its i-th element
\* is the Frontier of the i-th task, and bestSearchTime has an entry for
\* every task.
C10_ReturnAligned ==
    pc = "done" =>
        /\ Len(ret) = 2
        /\ Len(ret[1]) = Len(tasks)
        /\ \A i \in 1..Len(tasks) : ret[1][i].task = tasks[i] /\ ret[1][i] = frontiers[tasks[i]]
        /\ Range(tasks) \subseteq DOMAIN ret[2]
        /\ ret[2] = bestSearchTime

\* Two jobs, the second task's job solved and dropped, the first task's not.
C10_Witness ==
    /\ pc = "done" /\ Len(tasks) = 2 /\ ~SingleJob
    /\ Hits(tasks[2]) = maximumFrontier
    /\ Hits(tasks[1]) = 0 /\ frontiers[tasks[1]].entries # {}

\* ---- the merge of a success message ----
\* This step takes a success message from the queue.
Merging == pc = "wait" /\ q # <<>> /\ Head(q).result = "success" /\ q' = Tail(q)
\* A success message is at the head of the queue of the waiting coordinator.
AboutToMerge == pc = "wait" /\ q # <<>> /\ Head(q).result = "success"
MessageTasks == DOMAIN Head(q).value.newFrontiers
MessageFrontier(t) == Head(q).value.newFrontiers[t]
MessageSearchTime(t) == Head(q).value.searchTimes[t]
BestScore(es) == CHOOSE s \in {jointScore(e) : e \in es} : \A e \in es : jointScore(e) <= s
ScoreCount(es, s) == Cardinality({e \in es : jointScore(e) = s})

\* C11: merging a success message that holds no solution for a task leaves
\* the task's Frontier and best search time as they were; a task whose
\* Frontier is empty and whose search time is None stays so in every step
\* that merges no solution for it, up to the return.
C11_EmptyResultChangesNothing ==
    [][\A t \in DOMAIN frontiers :
          /\ (Merging /\ t \in MessageTasks /\ MessageFrontier(t).entries = {})
                => (frontiers'[t] = frontiers[t] /\ bestSearchTime'[t] = bestSearchTime[t])
          /\ (/\ frontiers[t].entries = {} /\ bestSearchTime[t] = None
              /\ ~(Merging /\ t \in MessageTasks /\ MessageFrontier(t).entries # {}))
                => (frontiers'[t].entries = {} /\ bestSearchTime'[t] = None)
          /\ (pc' = "done" /\ pc # "done")
                => (ret'[2][t] = bestSearchTime[t] /\ \A i \in 1..Len(tasks) : ret'[1][i] = frontiers[tasks[i]])]_vars

\* One job of two tasks has returned after two invocations that found nothing
\* for the first task and something for the second.
C11_Witness ==
    /\ pc = "done" /\ Len(tasks) = 2 /\ Len(jobs) = 1 /\ nextID = 2
    /\ frontiers[tasks[1]].entries = {} /\ bestSearchTime[tasks[1]] = None
    /\ frontiers[tasks[2]].entries # {} /\ bestSearchTime[tasks[2]] # None

\* C12: a merged success message with a search time dt for a task sets the
\* task's best search time to dt when it had none or when the merged
\* Frontier's best joint score is above the previous best, to the minimum
\* of the old time and dt when the best joint score is the same; in every
\* other step the best search time keeps its value.
C12_SearchTimeRule ==
    [][\A t \in DOMAIN bestSearchTime :
          IF Merging /\ t \in MessageTasks /\ MessageSearchTime(t) # None
          THEN LET dt == MessageSearchTime(t) IN
               IF bestSearchTime[t] = None THEN bestSearchTime'[t] = dt
               ELSE IF BestScore(frontiers'[t].entries) > BestScore(frontiers[t].entries)
                    THEN bestSearchTime'[t] = dt
               ELSE IF BestScore(frontiers'[t].entries) = BestScore(frontiers[t].entries)
                    THEN bestSearchTime'[t] = Min(bestSearchTime[t], dt)
               ELSE bestSearchTime'[t] = bestSearchTime[t]
          ELSE bestSearchTime'[t] = bestSearchTime[t]]_vars

\* A message is about to be merged that holds, for a task with a search
\* time, a solution scoring above the task's Frontier, and one scoring the same.
C12_Witness ==
    /\ AboutToMerge
    /\ \E t, u \in MessageTasks :
          /\ bestSearchTime[t] # None /\ MessageSearchTime(t) # None
          /\ BestScore(MessageFrontier(t).entries) > BestScore(frontiers[t].entries)
          /\ bestSearchTime[u] # None /\ MessageSearchTime(u) # None
          /\ BestScore(MessageFrontier(u).entries) = BestScore(frontiers[u].entries)

Examining == enum.pc = "for" /\ enum'.pending # enum.pending
Examined == CHOOSE p \in enum.pending : p \notin enum'.pending
AllHits(e) == UNION {e.hits[n] : n \in e.tasks}
BestHits(h) == {x \in h : \A y \in h : x.priority <= y.priority}

\* C13: the hit queues change only in an iteration of the for loop whose
\* program has a description length in (previousBudget, budget], and by that
\* program only; an iteration on a program outside the window raises the
\* assertion error, records nothing, and nothing is returned after it.
C13_ProgramsInWindow ==
    [][/\ enum'.hits # enum.hits =>
             /\ Examining
             /\ descriptionLength(Examined) > enum.previousBudget
             /\ descriptionLength(Examined) <= enum.budget
             /\ \A x \in AllHits(enum') \ AllHits(enum) : x.p = Examined
       /\ (/\ Examining
           /\ ~(/\ descriptionLength(Examined) > enum.previousBudget
                /\ descriptionLength(Examined) <= enum.budget))
             => (enum'.pc = "raised" /\ enum'.hits = enum.hits)
       /\ enum.pc = "raised" => enum' = enum]_vars

\* The Grammar has yielded program 2, of description length 1.5, in the
\* window that starts at 1.5, after a hit of the window before.
C13_Witness ==
    /\ enum.pc = "raised" /\ enum.p = 2 /\ enum.previousBudget = 3
    /\ AllHits(enum) # {}

\* C14, as stated: the search time returned for a task with a retained hit
\* is the discovery time of the retained hit of the best joint score, the
\* earliest of them when several share that score; it is None for a task
\* with no hit.
C14_SearchTimeOfBest ==
    enum.pc = "done" =>
        \A n \in enum.tasks :
            IF enum.hits[n] = {} THEN enum.searchTimes[n] = None
            ELSE enum.searchTimes[n] = MinTime(BestHits(enum.hits[n]))

\* C15: a call with timeout 0 enters no window, examines no program, raises
\* nothing, and returns an empty Frontier and None for every task.
C15_TimeoutZero ==
    enum.pc # "none" /\ enum.timeout = 0 =>
        /\ enum.pc \in {"while", "return", "done"}
        /\ enum.pending = {} /\ enum.p = None
        /\ enum.previousBudget = enum.lowerBound
        /\ \A n \in enum.tasks : enum.hits[n] = {}
        /\ enum.pc = "done" =>
              \A n \in enum.tasks :
                  enum.frontiers[n].entries = {} /\ enum.searchTimes[n] = None

\* A call with timeout 0 for two tasks has returned, time having passed.
C15_Witness ==
    /\ enum.pc = "done" /\ enum.timeout = 0 /\ enum.tasks = {1, 2} /\ enum.now = 1

\* C16, as stated: with the uniform grammar over 'one', one task, lowerBound
\* 0, upperBound 5, budgetIncrement 1.5 and timeout 2 s, the call ends by
\* returning a Frontier that holds the program and a search time below 2 s.
C16_FindsOne ==
    (/\ enum.pc \in {"done", "raised"}
     /\ enum.grammar = "one" /\ enum.conforming /\ enum.tasks = {1}
     /\ enum.lowerBound = 0 /\ enum.upperBound = 10
     /\ enum.budgetIncrement = BudgetIncrementValue
     /\ enum.timeout = 4 /\ enum.elapsedTime = 0)
    => /\ enum.pc = "done"
       /\ enum.frontiers[1].entries = {0}
       /\ enum.searchTimes[1] # None /\ enum.searchTimes[1] < 4


\* ---- solveForTask_ocaml ----
\* What a call on a response that is JSON ends with.
AdapterOutcome(response, ts, elapsedTime) ==
    IF \E t \in ts : KeyError(response[t])
    THEN [pc |-> "raised", frontiers |-> <<>>, searchTimes |-> <<>>]
    ELSE [pc |-> "done",
          frontiers |-> [t \in ts |-> AdapterFrontier(response[t])],
          searchTimes |-> [t \in ts |-> AdapterSearchTime(response[t], elapsedTime)]]

\* The solutions that agree with these on program, logLikelihood and time.
SameButLogPrior(solutions) ==
    {{[e EXCEPT !.logPrior = f[e]] : e \in solutions} :
        f \in [solutions -> LogPriorFields]}

\* C19: an invocation whose solver process exits with a non-zero status is
\* fatal whatever the process wrote: it returns no Frontier for any task.
C19_NonZeroExitIsFatal ==
    adapter.pc # "none" /\ adapter.started /\ adapter.returncode # 0
        => adapter.pc # "done"

\* C20: the output depends only on the program, logLikelihood and time of
\* the solutions: a response that differs in the logPrior fields only ends
\* with the same Frontiers and search times.
C20_LogPriorFieldIgnored ==
    adapter.pc = "done" =>
        \A other \in [adapter.tasks -> UNION {SameButLogPrior(adapter.response[t]) :
                                                 t \in adapter.tasks}] :
            (\A t \in adapter.tasks : other[t] \in SameButLogPrior(adapter.response[t]))
                => AdapterOutcome(other, adapter.tasks, adapter.elapsedTime)
                     = [pc |-> "done", frontiers |-> adapter.frontiers,
                        searchTimes |-> adapter.searchTimes]

\* ---- multicoreEnumeration: the scheduling loop ----
\* This step is a pass of the loop from refreshJobs() to the exit test.
Scheduling == pc = "loop" /\ pc' # "loop"
\* The invocations this step dispatches.
Dispatched == DOMAIN workers' \ DOMAIN workers
\* The Job's stopwatch is running.
Running(j) == stopwatches[j].running

\* C21: a pass of the loop returns exactly when no stopwatch is running after
\* its allocation attempt; the run returns from nowhere else, never with an
\* invocation whose message is not processed, and with activeCPUs = 0.
C21_ExitWhenNothingRunning ==
    /\ [][/\ Scheduling =>
                (pc' = "done" <=> \A k \in DOMAIN stopwatches' : ~stopwatches'[k].running)
          /\ pc' = "done" /\ pc # "done" => Scheduling]_vars
    /\ [](pc = "done" => /\ InFlight = {} /\ q = <<>>
                         /\ activeCPUs = 0
                         /\ \A k \in DOMAIN stopwatches : ~Running(k))

\* A run of two jobs has returned after three invocations or more, one job
\* having been dispatched twice.
C21_Witness ==
    /\ pc = "done" /\ Len(InitialJobs(tasks, task2grammar, request, testing)) = 2
    /\ nextID >= 3 /\ \E k \in DOMAIN lowerBounds : lowerBounds[k] >= 2 * BudgetIncrementValue

\* C22: an invocation is dispatched only for a Job whose stopwatch is not
\* running, and no two in-flight invocations are of the same Job; the
\* stopwatch of a Job with an in-flight invocation is running.
C22_OneInvocationPerJob ==
    /\ [][\A id \in Dispatched : ~Running(workers'[id].job)]_vars
    /\ [](/\ \A a, b \in InFlight : a # b => workers[a].job # workers[b].job
          /\ \A a \in InFlight : Running(workers[a].job))

\* A pass of the loop starts with a spare CPU while a Job that has time left
\* is being worked on.
C22_Witness ==
    /\ pc = "loop" /\ activeCPUs < CPUs
    /\ \E i \in 1..Len(jobs) :
          /\ Running(jobs[i].key)
          /\ Elapsed(stopwatches[jobs[i].key]) < enumerationTimeout - Epsilon

\* C23: the k-th dispatch of a Job carries lowerBound 1.5(k-1) and upperBound
\* 1.5k, and the Job's lowerBound is 1.5k from that step on, while the
\* invocation is still in flight; the lowerBound changes in no other step, so
\* that it is 1.5 times the number of the Job's dispatches throughout.
C23_WindowOfKthDispatch ==
    /\ [][/\ \A id \in Dispatched :
                LET j == workers'[id].job
                    k == dispatches'[j]
                IN  /\ k = dispatches[j] + 1
                    /\ workers'[id].lowerBound = (k - 1) * BudgetIncrementValue
                    /\ workers'[id].upperBound = k * BudgetIncrementValue
                    /\ lowerBounds'[j] = k * BudgetIncrementValue
                    /\ lowerBounds[j] = (k - 1) * BudgetIncrementValue
          /\ \A j \in DOMAIN lowerBounds :
                lowerBounds'[j] # lowerBounds[j]
                    => \E id \in Dispatched : workers'[id].job = j]_vars
    /\ [](\A j \in DOMAIN lowerBounds : lowerBounds[j] = dispatches[j] * BudgetIncrementValue)

\* A Job is in its second invocation, the first having returned no program
\* for any of its tasks.
C23_Witness ==
    \E id \in InFlight :
        /\ dispatches[workers[id].job] = 2
        /\ workers[id].lowerBound = BudgetIncrementValue
        /\ \A t \in Range(workers[id].tasks) : frontiers[t].entries = {}

\* ---- multicoreEnumeration: the allocation of a pass ----
\* The Jobs that are free in this pass: in the refreshed jobs, not being
\* worked on, with time left.
FreeInPass == {j \in JobKeys(jobs') : IsFree(j)}
\* The CPUs this pass gives the Job j: those of its new invocation, or none.
Allocated(j) ==
    IF \E id \in Dispatched : workers'[id].job = j
    THEN workers'[CHOOSE id \in Dispatched : workers'[id].job = j].CPUs
    ELSE 0

\* C24: when not testing, a pass with a free Job and k = CPUs - activeCPUs > 0
\* spare CPUs gives the free Jobs exactly k CPUs, to any two of them numbers
\* that differ by at most 1, and to a Job of strictly smaller lowerBound no
\* fewer than to one of larger lowerBound.
C24_FairAllocation ==
    [][(Scheduling /\ ~testing /\ FreeInPass # {} /\ CPUs - activeCPUs > 0) =>
          /\ \A id \in Dispatched : workers'[id].job \in FreeInPass
          /\ SumOver([j \in FreeInPass |-> Allocated(j)], FreeInPass) = CPUs - activeCPUs
          /\ activeCPUs' = CPUs
          /\ \A a, b \in FreeInPass :
                /\ Allocated(a) - Allocated(b) <= 1
                /\ lowerBounds[a] < lowerBounds[b] => Allocated(a) >= Allocated(b)]_vars

\* Not testing, one CPU: a Job in its first window has just been given the
\* CPU while a free Job that comes before it in the jobs dict, and has done
\* its first window, got none.
C24_Witness ==
    /\ ~testing /\ pc = "wait" /\ q = <<>> /\ activeCPUs = CPUs
    /\ \E id \in InFlight : \E i, n \in 1..Len(jobs) :
          /\ jobs[n].key = workers[id].job /\ i < n
          /\ workers[id].lowerBound = 0
          /\ stopwatches[jobs[n].key].cur = 0
          /\ lowerBounds[jobs[i].key] = BudgetIncrementValue
          /\ IsFree(jobs[i].key)

\* C25: when testing, a pass gives each free Job at most one CPU and every
\* invocation runs on exactly 1 CPU, so that activeCPUs is the number of
\* invocations in flight.
C25_TestingOneCPU ==
    /\ [][(Scheduling /\ testing) =>
             /\ \A j \in FreeInPass : Allocated(j) <= 1
             /\ \A id \in Dispatched : workers'[id].CPUs = 1]_vars
    /\ [](testing => /\ \A id \in InFlight : workers[id].CPUs = 1
                     /\ activeCPUs = Cardinality(InFlight))

\* Testing with two CPUs and one task: its invocation runs while a CPU is
\* spare.
C25_Witness ==
    /\ testing /\ Len(tasks) = 1 /\ CPUs = 2 /\ activeCPUs = 1
    /\ Cardinality(InFlight) = 1 /\ pc = "wait"

\* C26: every invocation is dispatched for a Job of the refreshed jobs, with
\* a task list that is not empty and whose tasks have fewer than
\* maximumFrontier hits each, the capacity sent for a task being
\* maximumFrontier - hits, between 1 and maximumFrontier, and the Job's
\* stopwatch being at enumerationTimeout at most; no Job has an empty task
\* list and a Job that was removed does not come back.
C26_DispatchedTasksUnsolved ==
    /\ [][/\ \A id \in Dispatched :
                LET inv == workers'[id] IN
                /\ inv.job \in JobKeys(jobs')
                /\ inv.tasks = JobTasks(jobs', inv.job)
                /\ Elapsed(stopwatches[inv.job]) <= enumerationTimeout
                /\ \A t \in Range(inv.tasks) :
                      /\ Hits(t) < maximumFrontier
                      /\ inv.maximumFrontiers[t] = maximumFrontier - Hits(t)
                      /\ inv.maximumFrontiers[t] >= 1
                      /\ inv.maximumFrontiers[t] <= maximumFrontier
          /\ JobKeys(jobs') \subseteq JobKeys(jobs)
          /\ \A i \in 1..Len(jobs') :
                Range(jobs'[i].tasks) \subseteq Range(JobTasks(jobs, jobs'[i].key))]_vars
    /\ [](\A i \in 1..Len(jobs) : jobs[i].tasks # <<>>)

\* Not testing: a Job of two tasks is in flight for its second window with
\* one task, the other task having its hits.
C26_Witness ==
    /\ ~testing /\ Len(tasks) >= 2
    /\ \E id \in InFlight :
          /\ workers[id].lowerBound = BudgetIncrementValue
          /\ Len(workers[id].tasks) = 1
          /\ \E t \in Range(tasks) \ Range(workers[id].tasks) :
                /\ task2grammar[t] = workers[id].job[1]
                /\ request[t] = workers[id].job[2]
                /\ Hits(t) = maximumFrontier

\* C27: an invocation is given timeout = enumerationTimeout minus the time
\* accumulated on its Job's stopwatch, which is more than the 0.5 s epsilon:
\* a Job with accumulated time of enumerationTimeout - 0.5 s or more is not
\* dispatched.
C27_TimeoutIsRemainingTime ==
    [][\A id \in Dispatched :
          LET j == workers'[id].job IN
          /\ workers'[id].timeout = enumerationTimeout - stopwatches[j].elapsed
          /\ workers'[id].timeout > Epsilon
          /\ stopwatches[j].elapsed < enumerationTimeout - Epsilon
          /\ stopwatches'[j].elapsed = stopwatches[j].elapsed]_vars

\* A Job that has used some of its time is in flight with the least timeout
\* an invocation can have, while another Job is left with the epsilon and is
\* not dispatched.
C27_Witness ==
    /\ pc = "wait" /\ activeCPUs < CPUs
    /\ \E id \in InFlight :
          /\ workers[id].timeout = Epsilon + 1
          /\ workers[id].timeout < enumerationTimeout
    /\ \E i \in 1..Len(jobs) :
          /\ ~Running(jobs[i].key)
          /\ stopwatches[jobs[i].key].elapsed = enumerationTimeout - Epsilon

\* C28: the time accumulated on a Job's stopwatch changes only in the step
\* that processes the message of the Job's invocation, where the time of that
\* invocation is added to it; the stopwatch's reading changes only while the
\* Job is being worked on; and if the invocation took no longer than the
\* timeout it was given, the accumulated time is enumerationTimeout at most.
C28_StopwatchAccumulates ==
    /\ [][\A j \in DOMAIN stopwatches :
             /\ Elapsed(stopwatches'[j]) # Elapsed(stopwatches[j])
                   => (Running(j) \/ stopwatches'[j].running)
                      /\ Elapsed(stopwatches'[j]) > Elapsed(stopwatches[j])
             /\ stopwatches'[j].elapsed # stopwatches[j].elapsed
                   => /\ Running(j) /\ ~stopwatches'[j].running
                      /\ stopwatches'[j].elapsed = stopwatches[j].elapsed + stopwatches[j].cur
                      /\ \E id \in InFlight \ DOMAIN workers' :
                            /\ workers[id].job = j
                            /\ stopwatches[j].cur <= workers[id].timeout
                                  => stopwatches'[j].elapsed <= enumerationTimeout]_vars
    /\ [](\A id \in InFlight :
             stopwatches[workers[id].job].cur <= workers[id].timeout
                => Elapsed(stopwatches[workers[id].job]) <= enumerationTimeout)

\* A Job has used up exactly enumerationTimeout in two rounds with a pause
\* between them.
C28_Witness ==
    \E j \in DOMAIN stopwatches :
        /\ ~Running(j) /\ dispatches[j] = 2
        /\ stopwatches[j].elapsed = enumerationTimeout
        /\ pc = "done"

\* ---- enumerateForTasks: the hit queues ----
HitPrograms(n) == {x.p : x \in enum.hits[n]}

\* C29: after every program a task's hit queue holds at most its capacity,
\* namely as many of the programs scored with success for the task so far as
\* the capacity allows, each under the priority -(logLikelihood + logPrior),
\* and no program left out has a better joint score than one kept.
C29_HitsAreBestScored ==
    enum.pc # "none" =>
        \A n \in enum.tasks :
            /\ Cardinality(enum.hits[n]) <= enum.maximumFrontiers[n]
            /\ HitPrograms(n) \subseteq enum.scored[n]
            /\ Cardinality(HitPrograms(n))
                  = Min(enum.maximumFrontiers[n], Cardinality(enum.scored[n]))
            /\ \A x \in enum.hits[n] : x.priority = 0 - jointScore(x.p)
            /\ \A x \in HitPrograms(n) : \A y \in enum.scored[n] \ HitPrograms(n) :
                  jointScore(x) >= jointScore(y)

\* A full queue of capacity 2 took a program of a later window and lost the
\* worse of the two it held.
C29_Witness ==
    /\ enum.pc # "none" /\ 1 \in enum.tasks
    /\ enum.maximumFrontiers[1] = 2
    /\ HitPrograms(1) = {1, 4}
    /\ 2 \in enum.scored[1]

\* C30: when the time is up after a program of the window has been scored,
\* the for loop is left with the rest of the window not enumerated, nothing
\* is raised, and the call returns the hit queues as they are, as Frontiers
\* and search times; only a program outside the window makes the call raise.
C30_TimeoutReturnsHits ==
    /\ [][/\ (Examining /\ enum.now > enum.timeout
                /\ InWindow(descriptionLength(Examined), enum.previousBudget, enum.budget))
             => /\ enum'.pc = "return"
                /\ enum'.pending = enum.pending \ {Examined}
                /\ \A n \in enum.tasks : enum.hits[n] \subseteq enum'.hits[n] \/ ScoreSucceeds(Examined, n)
          /\ enum.pc = "return"
             => /\ enum'.pc = "done"
                /\ enum'.hits = enum.hits /\ enum'.pending = enum.pending
                /\ \A n \in enum.tasks :
                      /\ enum'.frontiers[n].entries = HitPrograms(n)
                      /\ enum'.searchTimes[n] = None <=> enum.hits[n] = {}
                      /\ enum'.searchTimes[n] # None
                            => \E x \in enum.hits[n] : enum'.searchTimes[n] = x.dt]_vars
    /\ [](enum.pc = "raised"
             => ~InWindow(descriptionLength(enum.p), enum.previousBudget, enum.budget))

\* The call has returned after the time ran out in the middle of the second
\* window: the program left was not enumerated, the Frontier holds a program
\* of the first window and one of the second.
C30_Witness ==
    /\ enum.pc = "done" /\ enum.now > enum.timeout
    /\ enum.pending = {3}
    /\ enum.frontiers[1].entries = {1, 4}
    /\ enum.searchTimes[1] # None

\* ---- enumerateForTasks: where the time is looked at ----
\* C31, as stated: the time is looked at only between windows, so that a call
\* that stops without raising has enumerated every program of each window it
\* started.
C31_WindowsCompleted ==
    enum.pc \in {"return", "done"} => enum.pending = {}

\* C31, amended: the time is looked at before each window and after each
\* program.  A window is started only while the time is below the timeout;
\* after a program of the window has been scored the loop goes on when the
\* time is at the timeout or below, and is left, with the rest of the window
\* not enumerated, when it is above.
C31_TimeCheckedAfterEachProgram ==
    [][/\ (enum.pc = "while" /\ enum'.pc = "for") => enum.now < enum.timeout
       /\ (Examining /\ InWindow(descriptionLength(Examined), enum.previousBudget, enum.budget))
             => /\ enum.now <= enum.timeout => enum'.pc = "for"
                /\ enum.now > enum.timeout => enum'.pc = "return"
                /\ enum'.now = enum.now]_vars

\* The loop was left in the middle of the first window, one program scored
\* after the timeout and one never enumerated.
C31_Witness ==
    /\ enum.pc = "return" /\ enum.now = enum.timeout + 1
    /\ enum.previousBudget = enum.lowerBound /\ enum.lowerBound = 0
    /\ enum.p = 1 /\ enum.pending = {2}

\* Some task's hit queue is below its capacity.
SomeRoom == \E n \in enum.tasks : Cardinality(enum.hits[n]) < enum.maximumFrontiers[n]

\* C32: the while test starts a window exactly when the time is below the
\* timeout, some task's hit queue is below its capacity and budget <=
\* upperBound, and leaves the loop otherwise; no program enumerated, scored
\* or still to come in the window has a description length above upperBound.
C32_WindowStartedOnlyWhile ==
    /\ [][(enum.pc = "while" /\ enum'.pc # "while") =>
            /\ enum'.pc = "for" <=>
                  (enum.now < enum.timeout /\ SomeRoom /\ enum.budget <= enum.upperBound)
            /\ enum'.pc \in {"for", "return"}
            /\ enum'.hits = enum.hits]_vars
    /\ [](enum.pc # "none" =>
            /\ \A p \in enum.pending : descriptionLength(p) <= enum.upperBound
            /\ \A n \in enum.tasks : \A p \in enum.scored[n] :
                  descriptionLength(p) <= enum.upperBound
            /\ enum.p # None => descriptionLength(enum.p) <= enum.upperBound
            /\ enum.pc = "for" => enum.budget <= enum.upperBound)

\* The loop was left in time and with budget to spare because every queue
\* was full after the first window.
C32_Witness ==
    /\ enum.pc = "return" /\ enum.now < enum.timeout
    /\ enum.budget <= enum.upperBound /\ enum.previousBudget > enum.lowerBound
    /\ enum.tasks = {1, 2} /\ ~SomeRoom

\* C33: when a program of the window does not apply to a task, that task's
\* hit queue and scored programs stay as they are, the program is scored for
\* every task it applies to, those after the failing one included, and the
\* for loop goes on unless the time is up.
C33_ScoringMissSkipsTask ==
    [][(Examining /\ InWindow(descriptionLength(Examined), enum.previousBudget, enum.budget)) =>
          /\ \A n \in enum.tasks :
                IF ScoreSucceeds(Examined, n)
                THEN enum'.scored[n] = enum.scored[n] \cup {Examined}
                ELSE enum'.hits[n] = enum.hits[n] /\ enum'.scored[n] = enum.scored[n]
          /\ enum'.pc \in {"for", "return"}
          /\ enum'.pc = "return" => enum.now > enum.timeout
          /\ enum'.pending = enum.pending \ {Examined}]_vars

\* Program 1 did not apply to the second task and the window went on with
\* program 2; program 3 did not apply to the first task and was scored for
\* the second.
C33_Witness ==
    /\ enum.pc # "none" /\ enum.tasks = {1, 2}
    /\ 1 \in enum.scored[1] \ enum.scored[2]
    /\ 2 \in enum.scored[2]
    /\ 3 \in enum.scored[2] \ enum.scored[1]
    /\ enum.p = 3

\* ---- solveForTask_ocaml: the reported search time ----
\* The solutions of highest logLikelihood + logPrior.
MAPSolutions(solutions) ==
    {e \in solutions : \A o \in solutions :
        o.logLikelihood + o.logPrior[1] <= e.logLikelihood + e.logPrior[1]}

\* C34: for a task with solutions the reported search time is the time of a
\* solution of maximal logLikelihood + logPrior, plus the elapsedTime passed
\* in.
C34_SearchTimeOfMAP ==
    adapter.pc = "done" =>
        \A t \in adapter.tasks :
            adapter.response[t] # {} =>
                \E e \in MAPSolutions(adapter.response[t]) :
                    adapter.searchTimes[t] = e.time + adapter.elapsedTime

\* ---- multicoreEnumeration: the order of two success messages ----
\* The search time of a task after a message with time dt for it.
SearchTimeAfter(best, oldF, newF, dt) ==
    IF dt = None THEN best
    ELSE IF best = None THEN dt
    ELSE IF bestPosteriorScore(newF) > bestPosteriorScore(oldF) THEN dt
    ELSE IF bestPosteriorScore(newF) = bestPosteriorScore(oldF) THEN Min(best, dt)
    ELSE best
\* A task's Frontier and search time, and whether no assertion has failed on it.
TaskNow(t) == [frontier |-> frontiers[t], best |-> bestSearchTime[t], ok |-> TRUE]
\* What a success message says about one of its tasks.
Says(m, t) == [f |-> m.value.newFrontiers[t], dt |-> m.value.searchTimes[t]]
\* What handling the Frontier c.f and search time c.dt can make of a task in
\* the state s.
Handled(s, c) ==
    IF ~s.ok THEN {s}
    ELSE {[frontier |-> g,
           best |-> IF c.dt # None /\ s.best # None /\ (s.frontier.entries = {} \/ g.entries = {})
                    THEN s.best
                    ELSE SearchTimeAfter(s.best, s.frontier, g, c.dt),
           ok |-> ~(c.dt # None /\ s.best # None /\ (s.frontier.entries = {} \/ g.entries = {}))] :
              g \in MergeFrontier(s.frontier, c.f)}
\* What handling the message at the head of the queue can make of the task t.
HandledHead(s, t) == IF t \in MessageTasks THEN Handled(s, Says(Head(q), t)) ELSE {s}
\* What the in-flight invocation id can say about its task t in a success
\* message.
PossibleSuccesses(id, t) ==
    {Says(m, t) : m \in UNION {SuccessMessages(workers[id], dur) : dur \in 1..MaxDur}}
Asserts(S) == \E s \in S : ~s.ok

\* C35: when the coordinator takes the success message of one Job while an
\* invocation of another Job is in flight, handling that message and then
\* any success message of the other invocation gives every task the same
\* Frontier and the same bestSearchTime as handling the two in the opposite
\* order, and an assertion fails in one order exactly if one fails in the
\* other (a message changes the tasks it names only, each from that task's
\* own Frontier and search time, so that this is the same Frontiers and
\* bestSearchTime for the run); and what the coordinator makes of a success
\* message is what Handled says.
C35_OrderOfMessagesIrrelevant ==
    /\ [](AboutToMerge =>
            \A j \in DOMAIN workers :
                workers[j].job # id2job[Head(q).ID] =>
                    \A t \in Range(workers[j].tasks) : \A c \in PossibleSuccesses(j, t) :
                        LET headFirst == UNION {Handled(s, c) : s \in HandledHead(TaskNow(t), t)}
                            headLast == UNION {HandledHead(s, t) : s \in Handled(TaskNow(t), c)}
                        IN  /\ Asserts(headFirst) <=> Asserts(headLast)
                            /\ ~Asserts(headFirst) => headFirst = headLast)
    /\ [][Merging =>
            /\ \A t \in DOMAIN frontiers :
                  [frontier |-> frontiers'[t], best |-> bestSearchTime'[t],
                   ok |-> t \notin MessageTasks
                          \/ ~AssertionFails(t, frontiers[t], frontiers'[t], MessageSearchTime(t))]
                      \in HandledHead(TaskNow(t), t)
            /\ pc' = "aborted" <=> \E t \in DOMAIN frontiers : Asserts(HandledHead(TaskNow(t), t))]_vars

\* The messages of two Jobs wait in the queue, each with a program and a
\* search time for its task, and one of the tasks already has a search time.
C35_Witness ==
    /\ pc = "wait" /\ Len(q) = 2
    /\ q[1].result = "success" /\ q[2].result = "success"
    /\ id2job[q[1].ID] # id2job[q[2].ID]
    /\ \A n \in 1..2 : \E t \in DOMAIN q[n].value.searchTimes : q[n].value.searchTimes[t] # None
    /\ \E t \in DOMAIN q[1].value.searchTimes :
          q[1].value.searchTimes[t] # None /\ bestSearchTime[t] # None

\* ---- wrapInThread: the completion message of an invocation ----
\* The messages in the queue that carry the ID id.
MessagesOf(id) == {n \in 1..Len(q) : q[n].ID = id}

JobsInFlight == {workers[id].job : id \in DOMAIN workers}
RunningJobs == {j \in DOMAIN stopwatches : Running(j)}

\* C37: when the coordinator waits in q.get(), some dispatched invocation has
\* not had its message processed, and a message is in the queue or the solver
\* of some invocation has yet to end; and as long as the run goes on the Jobs
\* whose stopwatch is running are the Jobs with such an invocation.
C37_WaitsOnlyForWorkers ==
    /\ pc = "wait" =>
          /\ InFlight # {}
          /\ q # <<>> \/ \E id \in InFlight : ~workers[id].posted
    /\ pc \in {"loop", "wait"} => RunningJobs = JobsInFlight

\* The coordinator waits on an empty queue for the invocation of one Job
\* while another Job, dispatched before, has no invocation.
C37_Witness ==
    /\ pc = "wait" /\ q = <<>>
    /\ Cardinality(JobsInFlight) = 1
    /\ \E j \in DOMAIN stopwatches : ~Running(j) /\ dispatches[j] >= 1

\* ---- multicoreEnumeration: activeCPUs ----
\* C38: as long as the run goes on, activeCPUs is the sum of id2CPUs over the
\* invocations dispatched and not yet processed; a pass of the loop adds the
\* allocations of the invocations it dispatches, and processing a success
\* message subtracts the CPUs of the message's ID and stops the stopwatch of
\* that ID's Job, leaving every other stopwatch as it is.
C38_ActiveCPUsAccounting ==
    /\ [](pc \in {"loop", "wait", "done"} =>
            /\ InFlight \subseteq DOMAIN id2CPUs /\ InFlight \subseteq DOMAIN id2job
            /\ \A id \in InFlight : id2CPUs[id] = workers[id].CPUs /\ id2job[id] = workers[id].job
            /\ activeCPUs = SumOver(id2CPUs, InFlight))
    /\ [][/\ Scheduling =>
                /\ activeCPUs' = activeCPUs + SumOver(id2CPUs', Dispatched)
                /\ \A id \in InFlight : id2CPUs'[id] = id2CPUs[id]
          /\ Merging =>
                /\ activeCPUs' = activeCPUs - id2CPUs[Head(q).ID]
                /\ InFlight' = InFlight \ {Head(q).ID}
                /\ ~stopwatches'[id2job[Head(q).ID]].running
                /\ stopwatches'[id2job[Head(q).ID]].elapsed = Elapsed(stopwatches[id2job[Head(q).ID]])
                /\ \A j \in DOMAIN stopwatches :
                      j # id2job[Head(q).ID] => stopwatches'[j] = stopwatches[j]]_vars

\* A success message has been processed while the invocation of another Job,
\* which holds the CPUs still in use, is in flight with its stopwatch running.
C38_Witness ==
    /\ pc = "loop" /\ Cardinality(InFlight) = 1 /\ activeCPUs >= 1 /\ activeCPUs < CPUs
    /\ \E j \in DOMAIN stopwatches : ~Running(j) /\ stopwatches[j].elapsed >= 1
    /\ \E j \in DOMAIN stopwatches : Running(j) /\ stopwatches[j].cur >= 1

\* ---- multicoreEnumeration: bestSearchTime and the Frontiers ----
\* C39: between the merges of messages a task's bestSearchTime is None exactly
\* when its Frontier is empty; the assertions on oldBest and newBest hold
\* whenever a success message is merged, and the merge goes on to the loop.
C39_SearchTimeIffSolved ==
    /\ [](pc \in {"loop", "wait", "done"} =>
            \A t \in DOMAIN frontiers :
                bestSearchTime[t] = None <=> frontiers[t].entries = {})
    /\ [][Merging =>
            /\ \A t \in MessageTasks :
                  ~AssertionFails(t, frontiers[t], frontiers'[t], MessageSearchTime(t))
            /\ pc' = "loop"]_vars

\* A success message brings a search time for a task that has one already,
\* where the assertions are evaluated, while another task has neither a
\* program nor a search time.
C39_Witness ==
    /\ AboutToMerge
    /\ \E t \in MessageTasks : MessageSearchTime(t) # None /\ bestSearchTime[t] # None
    /\ \E t \in DOMAIN frontiers : bestSearchTime[t] = None /\ frontiers[t].entries = {}

\* ---- multicoreEnumeration: no free Job waits for ever ----
\* The Job keeps a task at the next refreshJobs() and is free.
LiveAndFree(j) == IsFree(j) /\ j \in JobKeys(refreshJobs)

\* C40: with CPUs >= 1, when no invocation fails and each posts its message,
\* a Job that is live and free is dispatched later on.  It stays live and
\* free until a pass of the loop dispatches it, which starts its stopwatch;
\* the run returns; and when it has returned no Job is live and free.
C40_FreeJobEventuallyDispatched ==
    /\ [][\A j \in DOMAIN stopwatches :
            (LiveAndFree(j) /\ ~LiveAndFree(j)') =>
                /\ Scheduling /\ Running(j)'
                /\ dispatches'[j] = dispatches[j] + 1]_vars
    /\ [](pc = "done" /\ CPUs >= 1 => \A j \in DOMAIN stopwatches : ~LiveAndFree(j))
    /\ <>(pc = "done")

\* With one CPU the Job that had to wait is running, for the first time, and
\* the Job that went first is live and free and waits in its turn.
C40_Witness ==
    /\ pc = "wait" /\ CPUs = 1
    /\ \E j \in DOMAIN stopwatches : Running(j) /\ dispatches[j] = 1
    /\ \E j \in DOMAIN stopwatches : LiveAndFree(j) /\ dispatches[j] = 1

====
